---------------------------- MODULE Spec2Model ----------------------------
(***************************************************************************)
(* Model of CSD2161_A4/Scripts/NetworkGameState.cpp: the networked game    *)
(* state store (objects and player data, guarded by gameStateMutex) and    *)
(* the networked leaderboard (guarded by leaderboardMutex), with its       *)
(* binary save / load and its top-players query.                           *)
(*                                                                         *)
(* Arrays keep the source's 0-based indexing.  An AEVec2 is modelled by a  *)
(* number standing for one vector value; a C string by the sequence of     *)
(* its characters before the terminating NUL.                              *)
(***************************************************************************)
EXTENDS Integers, Sequences, FiniteSets, TLC

(***************************************************************************)
(* Capacities.  NetworkGameState.h sets them; the model scales them down.  *)
(***************************************************************************)
MAX_NETWORK_OBJECTS == 2

MAX_PLAYERS == 2

MAX_LEADERBOARD_SCORES == 2

(***************************************************************************)
(* Inputs.                                                                 *)
(***************************************************************************)
\* uint32_t identifiers: one more than the table holds, 0 included (the value
\* of a zero-initialised slot)
ObjectIds == 0..MAX_NETWORK_OBJECTS

PlayerIds == 0..MAX_PLAYERS

\* (position, velocity, scale) as passed to one SetNetworkObject call
Transforms ==
    { [position |-> 1, velocity |-> 2, scale |-> 3],
      [position |-> 4, velocity |-> 5, scale |-> 6] }

\* (score, lives) as passed to one SetNetworkPlayerData call
PlayerValues ==
    { [score |-> 1, lives |-> 2],
      [score |-> 3, lives |-> 4] }

NotFound == -1

(***************************************************************************)
(* The state.                                                              *)
(***************************************************************************)
VARIABLES
    currentGameState,   \* [objects, objectCount, playerData, playerCount]
    leaderboard,        \* [scores, scoreCount]
    file,               \* the leaderboard file on disk: [exists, data]
    running,            \* FALSE once the process has been terminated
    last,               \* the last call of the sequential caller, and its result
    prev,               \* the call before it, kept when the last call is a
                        \* GetNetworkObject or a LoadLeaderboard
    outTransform,       \* the caller's position / velocity / scale arguments
    outPlayer,          \* the caller's score / lives arguments
    topScores,          \* the vector the last call returned, if it returned one
    objWritten,         \* history: identifiers SetNetworkObject stored
    plWritten,          \* history: identifiers SetNetworkPlayerData stored
    gameStateMutex,     \* owner of gameStateMutex, or NoThread
    leaderboardMutex,   \* owner of leaderboardMutex, or NoThread
    pc,                 \* per thread: where it is in its call
    call,               \* per thread: the call it is making
    local,              \* per thread: index found, values read, return value
    objCalls,           \* history: <<identifier, transform>> of the
                        \* SetNetworkObject calls the threads have made
    scoreCalls          \* history: <<identifier, arguments>> of the
                        \* AddScoreToLeaderboard calls the threads have made

gameVars == <<currentGameState, outTransform, outPlayer, objWritten, plWritten>>

boardVars == <<leaderboard, file, running, topScores>>

threadVars ==
    <<gameStateMutex, leaderboardMutex, pc, call, local, objCalls, scoreCalls>>

vars == <<gameVars, boardVars, last, prev, threadVars>>

ZeroTransform == [position |-> 0, velocity |-> 0, scale |-> 0]

ZeroObject == [identifier |-> 0, transform |-> ZeroTransform]

ZeroPlayer == [identifier |-> 0, score |-> 0, lives |-> 0]

\* NetworkGameState currentGameState: a global, zero-initialised
ZeroGameState ==
    [ objects     |-> [x \in 0..(MAX_NETWORK_OBJECTS - 1) |-> ZeroObject],
      objectCount |-> 0,
      playerData  |-> [x \in 0..(MAX_PLAYERS - 1) |-> ZeroPlayer],
      playerCount |-> 0 ]

(***************************************************************************)
(* Game state store: the scans and the upserts.                            *)
(***************************************************************************)
\* mutant: the scan runs over the whole array, not the live slots
FindObjectAllSlots(gs, identifier) ==
    LET hits == { x \in 0..(MAX_NETWORK_OBJECTS - 1) :
                    gs.objects[x].identifier = identifier }
    IN  IF hits = {} THEN NotFound
        ELSE CHOOSE x \in hits : \A y \in hits : x <= y

\* mutant: the scan never matches
FindObjectNone(gs, identifier) == NotFound

\* for (x = 0; x < objectCount; ++x) if (objects[x].identifier == identifier)
FindObject(gs, identifier) ==
    LET hits == { x \in 0..(gs.objectCount - 1) :
                    gs.objects[x].identifier = identifier }
    IN  IF hits = {} THEN NotFound
        ELSE CHOOSE x \in hits : \A y \in hits : x <= y

FindPlayer(gs, identifier) ==
    LET hits == { x \in 0..(gs.playerCount - 1) :
                    gs.playerData[x].identifier = identifier }
    IN  IF hits = {} THEN NotFound
        ELSE CHOOSE x \in hits : \A y \in hits : x <= y

\* mutant: the capacity test off by one
ObjectRoomOffByOne(gs) == gs.objectCount <= MAX_NETWORK_OBJECTS

\* the objectCount < MAX_NETWORK_OBJECTS test of the append path
ObjectRoom(gs) == gs.objectCount < MAX_NETWORK_OBJECTS

\* mutant: the player capacity test reads the object count
PlayerRoomByObjects(gs) == gs.objectCount < MAX_PLAYERS

PlayerRoom(gs) == gs.playerCount < MAX_PLAYERS

\* mutant: velocity and scale stored in each other's field
StoreTransformSwapped(gs, x, tr) ==
    [gs EXCEPT !.objects[x].transform.position = tr.position,
               !.objects[x].transform.velocity = tr.scale,
               !.objects[x].transform.scale    = tr.velocity]

\* the three transform assignments of SetNetworkObject
StoreTransform(gs, x, tr) ==
    [gs EXCEPT !.objects[x].transform.position = tr.position,
               !.objects[x].transform.velocity = tr.velocity,
               !.objects[x].transform.scale    = tr.scale]

\* the game state SetNetworkObject leaves, and what it returns
SetObjectState(gs, identifier, tr) ==
    LET x == FindObject(gs, identifier)
    IN  IF x # NotFound THEN StoreTransform(gs, x, tr)
        ELSE IF ObjectRoom(gs)
             THEN LET index == gs.objectCount
                      g1 == [gs EXCEPT !.objects[index].identifier = identifier]
                      g2 == StoreTransform(g1, index, tr)
                  IN  [g2 EXCEPT !.objectCount = gs.objectCount + 1]
             ELSE gs

SetObjectReturn(gs, identifier) ==
    FindObject(gs, identifier) # NotFound \/ ObjectRoom(gs)

\* mutant: an update in place stores the score only
SetPlayerStateScoreOnly(gs, identifier, pv) ==
    LET x == FindPlayer(gs, identifier)
    IN  IF x # NotFound
        THEN [gs EXCEPT !.playerData[x].score = pv.score]
        ELSE IF PlayerRoom(gs)
             THEN LET index == gs.playerCount
                  IN  [gs EXCEPT !.playerCount = gs.playerCount + 1,
                                 !.playerData[index].identifier = identifier,
                                 !.playerData[index].score = pv.score,
                                 !.playerData[index].lives = pv.lives]
             ELSE gs

SetPlayerState(gs, identifier, pv) ==
    LET x == FindPlayer(gs, identifier)
    IN  IF x # NotFound
        THEN [gs EXCEPT !.playerData[x].score = pv.score,
                        !.playerData[x].lives = pv.lives]
        ELSE IF PlayerRoom(gs)
             THEN LET index == gs.playerCount
                  IN  [gs EXCEPT !.playerCount = gs.playerCount + 1,
                                 !.playerData[index].identifier = identifier,
                                 !.playerData[index].score = pv.score,
                                 !.playerData[index].lives = pv.lives]
             ELSE gs

SetPlayerReturn(gs, identifier) ==
    FindPlayer(gs, identifier) # NotFound \/ PlayerRoom(gs)

(***************************************************************************)
(* Game state store: the four operations, each as one call of a            *)
(* sequential caller.                                                      *)
(***************************************************************************)
\* a call as the caller saw it: count is the table's count when it was made
Called(op, identifier, arg, ret, count) ==
    [op |-> op, identifier |-> identifier, arg |-> arg, ret |-> ret,
     count |-> count]

NoCall == Called("none", 0, <<>>, FALSE, 0)

SetNetworkObject(identifier, tr) ==
    /\ running
    /\ currentGameState' = SetObjectState(currentGameState, identifier, tr)
    /\ last' = Called("SetNetworkObject", identifier, tr,
                       SetObjectReturn(currentGameState, identifier),
                       currentGameState.objectCount)
    /\ prev' = NoCall
    /\ objWritten' = IF SetObjectReturn(currentGameState, identifier)
                     THEN objWritten \cup {identifier}
                     ELSE objWritten
    /\ UNCHANGED <<outTransform, outPlayer, plWritten, boardVars, threadVars>>

GetNetworkObject(identifier) ==
    LET x == FindObject(currentGameState, identifier)
    IN  /\ running
        /\ outTransform' =
             IF x # NotFound
             THEN [position |-> currentGameState.objects[x].transform.position,
                   velocity |-> currentGameState.objects[x].transform.velocity,
                   scale    |-> currentGameState.objects[x].transform.scale]
             ELSE outTransform
        /\ last' = Called("GetNetworkObject", identifier, <<>>, x # NotFound,
                           currentGameState.objectCount)
        /\ prev' = last
        /\ UNCHANGED <<currentGameState, outPlayer, objWritten, plWritten,
                       boardVars, threadVars>>

SetNetworkPlayerData(identifier, pv) ==
    /\ running
    /\ currentGameState' = SetPlayerState(currentGameState, identifier, pv)
    /\ last' = Called("SetNetworkPlayerData", identifier, pv,
                       SetPlayerReturn(currentGameState, identifier),
                       currentGameState.playerCount)
    /\ prev' = NoCall
    /\ plWritten' = IF SetPlayerReturn(currentGameState, identifier)
                    THEN plWritten \cup {identifier}
                    ELSE plWritten
    /\ UNCHANGED <<outTransform, outPlayer, objWritten, boardVars, threadVars>>

GetNetworkPlayerData(identifier) ==
    LET x == FindPlayer(currentGameState, identifier)
    IN  /\ running
        /\ outPlayer' =
             IF x # NotFound
             THEN [score |-> currentGameState.playerData[x].score,
                   lives |-> currentGameState.playerData[x].lives]
             ELSE outPlayer
        /\ last' = Called("GetNetworkPlayerData", identifier, <<>>, x # NotFound,
                           currentGameState.playerCount)
        /\ prev' = NoCall
        /\ UNCHANGED <<currentGameState, outTransform, objWritten, plWritten,
                       boardVars, threadVars>>

(***************************************************************************)
(* Leaderboard: text fields, the sort, the admission rule.                 *)
(***************************************************************************)
\* strncpy_s count arguments: the most characters of a name and of a
\* timestamp that are stored
MAX_NAME_LENGTH == 2

TIME_FORMAT == 2

\* chars in entry.name and entry.timestamp: a text of up to MAX_NAME_LENGTH
\* (TIME_FORMAT) characters and its NUL
NameSize == MAX_NAME_LENGTH + 1

TimestampSize == TIME_FORMAT + 1

ZeroScore == [identifier |-> 0, name |-> <<>>, score |-> 0, timestamp |-> <<>>]

\* NetworkLeaderboard leaderboard: a global, zero-initialised
ZeroLeaderboard ==
    [ scores     |-> [x \in 0..(MAX_LEADERBOARD_SCORES - 1) |-> ZeroScore],
      scoreCount |-> 0 ]

\* the record file.write / file.read transfer, counted in units: one per
\* slot of scores, then one for scoreCount
RecordUnits == MAX_LEADERBOARD_SCORES + 1

\* the unit that holds scoreCount
CountUnit == MAX_LEADERBOARD_SCORES

\* no file at the path yet
NoFile == [exists |-> FALSE, data |-> ZeroLeaderboard, length |-> 0]

Min(a, b) == IF a < b THEN a ELSE b

\* mutant: the count is ignored, the whole source is copied
StrncpyWhole(size, src, count) == [ok |-> TRUE, dest |-> src]

\* strncpy_s(dest, src, count), dest an array of size chars: the first
\* D = min(count, strlen(src)) characters and a NUL when they fit; else
\* dest[0] = 0 and the invalid parameter handler is invoked
StrncpyS(size, src, count) ==
    LET D == Min(count, Len(src))
    IN  IF D < size
        THEN [ok |-> TRUE,  dest |-> SubSeq(src, 1, D)]
        ELSE [ok |-> FALSE, dest |-> <<>>]

\* mutant: the comparator orders ascending
ScoreBeforeAscending(lhs, rhs) == lhs.score < rhs.score

\* the comparator of both std::sort calls
ScoreBefore(lhs, rhs) == lhs.score > rhs.score

\* std::sort(scores, scores + n, ScoreBefore): std::sort is not stable, so
\* every arrangement of the first n slots that the comparator accepts
SortOutcomes(scores, n) ==
    LET live  == 0..(n - 1)
        perms == { p \in [live -> live] : \A a, b \in live : a # b => p[a] # p[b] }
        arrange(p) == [x \in DOMAIN scores |-> IF x \in live THEN scores[p[x]]
                                                ELSE scores[x]]
    IN  { arrange(p) : p \in { q \in perms :
            \A a, b \in live :
               a < b => ~ScoreBefore(scores[q[b]], scores[q[a]]) } }

\* mutant: a full table gives up its last slot to any score
AdmitSlotAlways(lb, score) ==
    IF lb.scoreCount < MAX_LEADERBOARD_SCORES THEN lb.scoreCount
    ELSE MAX_LEADERBOARD_SCORES - 1

\* mutant: a score equal to the last slot's is admitted too
AdmitSlotOrEqual(lb, score) ==
    IF lb.scoreCount < MAX_LEADERBOARD_SCORES THEN lb.scoreCount
    ELSE IF score >= lb.scores[MAX_LEADERBOARD_SCORES - 1].score
         THEN MAX_LEADERBOARD_SCORES - 1
         ELSE NotFound

\* mutant: a full table gives up its first slot
AdmitSlotFirst(lb, score) ==
    IF lb.scoreCount < MAX_LEADERBOARD_SCORES THEN lb.scoreCount
    ELSE IF score > lb.scores[MAX_LEADERBOARD_SCORES - 1].score
         THEN 0
         ELSE NotFound

\* which slot AddScoreToLeaderboard writes: scores[scoreCount++] with room,
\* scores[MAX_LEADERBOARD_SCORES - 1] when the new score beats it, else none
AdmitSlot(lb, score) ==
    IF lb.scoreCount < MAX_LEADERBOARD_SCORES THEN lb.scoreCount
    ELSE IF score > lb.scores[MAX_LEADERBOARD_SCORES - 1].score
         THEN MAX_LEADERBOARD_SCORES - 1
         ELSE NotFound

AdmitCount(lb) ==
    IF lb.scoreCount < MAX_LEADERBOARD_SCORES THEN lb.scoreCount + 1
    ELSE lb.scoreCount

\* the four assignments to entry; a strncpy_s whose source does not fit
\* either ends the process there (the default handler) or returns with the
\* field emptied (an installed handler)
WriteEntryOutcomes(lb, x, identifier, name, score, timestamp) ==
    LET c1 == StrncpyS(NameSize, name, MAX_NAME_LENGTH)
        c2 == StrncpyS(TimestampSize, timestamp, TIME_FORMAT)
        l1 == [lb EXCEPT !.scores[x].identifier = identifier,
                         !.scores[x].name = c1.dest]
        l2 == [l1 EXCEPT !.scores[x].score = score,
                         !.scores[x].timestamp = c2.dest]
    IN  { [leaderboard |-> l1, done |-> FALSE] : b \in IF c1.ok THEN {} ELSE {0} }
        \cup
        { [leaderboard |-> l2, done |-> FALSE] : b \in IF c2.ok THEN {} ELSE {0} }
        \cup
        { [leaderboard |-> l2, done |-> TRUE] }

\* std::sort(scores, scores + scoreCount) with scoreCount past the end of the
\* array: undefined.  Either the process ends in the sort, or the memory
\* behind the array compares low and the slots of the array come out arranged
\* among themselves
SortOverrun(lb) ==
    { [leaderboard |-> lb, returned |-> FALSE, ret |-> FALSE] }
    \cup { [leaderboard |-> [lb EXCEPT !.scores = s],
             returned |-> TRUE, ret |-> TRUE] :
             s \in SortOutcomes(lb.scores, MAX_LEADERBOARD_SCORES) }

\* every (leaderboard, returned, ret) AddScoreToLeaderboard can end in
AddScoreOutcomes(lb, identifier, name, score, timestamp) ==
    LET x  == AdmitSlot(lb, score)
        l0 == [lb EXCEPT !.scoreCount = AdmitCount(lb)]
    IN  IF x = NotFound
        THEN { [leaderboard |-> lb, returned |-> TRUE, ret |-> FALSE] }
        ELSE UNION {
               IF w.done /\ w.leaderboard.scoreCount > MAX_LEADERBOARD_SCORES
               THEN SortOverrun(w.leaderboard)
               ELSE IF w.done
               THEN { [leaderboard |-> [w.leaderboard EXCEPT !.scores = s],
                       returned |-> TRUE, ret |-> TRUE] :
                      s \in SortOutcomes(w.leaderboard.scores,
                                         w.leaderboard.scoreCount) }
               ELSE { [leaderboard |-> w.leaderboard,
                       returned |-> FALSE, ret |-> FALSE] } :
               w \in WriteEntryOutcomes(l0, x, identifier, name, score, timestamp) }

\* operator<< of an unsigned integer: its decimal digits
DigitChar(d) == <<"0", "1", "2", "3", "4", "5", "6", "7", "8", "9">>[d + 1]

RECURSIVE Decimal(_)
Decimal(n) == IF n < 10 THEN <<DigitChar(n)>>
              ELSE Decimal(n \div 10) \o <<DigitChar(n % 10)>>

\* mutant: ranks start at 0
FormatScoreFromZero(x, entry) ==
    Decimal(x) \o <<")", " ">> \o entry.name \o <<":", " ">>
      \o Decimal(entry.score) \o <<" ", "[">> \o entry.timestamp \o <<"]">>

\* oss << (x + 1) << ") " << name << ": " << score << " [" << timestamp << "]"
FormatScore(x, entry) ==
    Decimal(x + 1) \o <<")", " ">> \o entry.name \o <<":", " ">>
      \o Decimal(entry.score) \o <<" ", "[">> \o entry.timestamp \o <<"]">>

\* count = (playerCount < scoreCount) ? playerCount : scoreCount
TopCount(lb, playerCount) ==
    IF playerCount < lb.scoreCount THEN playerCount ELSE lb.scoreCount

TopPlayers(lb, playerCount) ==
    [i \in 1..TopCount(lb, playerCount) |-> FormatScore(i - 1, lb.scores[i - 1])]

(***************************************************************************)
(* Leaderboard: the four operations, each as one call of a sequential      *)
(* caller.                                                                 *)
(***************************************************************************)
AddScoreToLeaderboard(identifier, name, score, timestamp) ==
    /\ running
    /\ \E o \in AddScoreOutcomes(leaderboard, identifier, name, score, timestamp) :
         /\ leaderboard' = o.leaderboard
         /\ running' = o.returned
         /\ last' = Called("AddScoreToLeaderboard", identifier,
                            [name |-> name, score |-> score,
                             timestamp |-> timestamp],
                            o.ret, leaderboard.scoreCount)
    /\ prev' = NoCall
    /\ topScores' = <<>>
    /\ UNCHANGED <<file, gameVars, threadVars>>

\* mutant: only the scores array is written, the count is left zero
FileImageScoresOnly(lb) == [lb EXCEPT !.scoreCount = 0]

\* file.write(&leaderboard, sizeof(NetworkLeaderboard)): the whole aggregate,
\* the count and every slot, as it is in memory
FileImage(lb) == lb

\* the file a good std::ofstream leaves: truncated, then the whole record
Written(lb) ==
    [exists |-> TRUE, data |-> FileImage(lb), length |-> RecordUnits]

\* file.read(&leaderboard, sizeof(NetworkLeaderboard)) from a file that holds
\* the first got units of record data: the units read are stored straight
\* into the aggregate, the others stay as they are in memory
ReadInto(lb, data, got) ==
    [ scores     |-> [x \in DOMAIN lb.scores |->
                        IF x < got THEN data.scores[x] ELSE lb.scores[x]],
      scoreCount |-> IF CountUnit < got THEN data.scoreCount ELSE lb.scoreCount ]

\* mutant: a stream that is not good clears the leaderboard
LoadOutcomeCleared(lb, f, opened) ==
    IF opened THEN ReadInto(lb, f.data, f.length) ELSE ZeroLeaderboard

\* if (file) file.read(...): the leaderboard LoadLeaderboard leaves
LoadOutcome(lb, f, opened) ==
    IF opened THEN ReadInto(lb, f.data, f.length) ELSE lb

\* std::ofstream file(filename, std::ios::binary): opened says whether the
\* stream is good; opening truncates, write stores the whole aggregate
SaveLeaderboard(opened) ==
    /\ running
    /\ file' = IF opened THEN Written(leaderboard) ELSE file
    /\ last' = Called("SaveLeaderboard", 0, <<>>, opened, leaderboard.scoreCount)
    /\ prev' = NoCall
    /\ topScores' = <<>>
    /\ UNCHANGED <<leaderboard, running, gameVars, threadVars>>

\* std::ifstream file(filename, std::ios::binary): never good without a file
LoadLeaderboard(opened) ==
    /\ running
    /\ opened => file.exists
    /\ leaderboard' = LoadOutcome(leaderboard, file, opened)
    /\ last' = Called("LoadLeaderboard", 0, <<>>, opened, leaderboard.scoreCount)
    /\ prev' = last
    /\ topScores' = <<>>
    /\ UNCHANGED <<file, running, gameVars, threadVars>>

\* the file at the path is not the program's alone: something else puts
\* file f there, which LoadLeaderboard's std::ifstream then opens
FileReplaced(f) ==
    /\ running
    /\ file' = f
    /\ last' = Called("FileReplaced", 0, <<>>, TRUE, leaderboard.scoreCount)
    /\ prev' = NoCall
    /\ topScores' = <<>>
    /\ UNCHANGED <<leaderboard, running, gameVars, threadVars>>

GetTopPlayersFromLeaderboard(playerCount) ==
    /\ running
    /\ topScores' = TopPlayers(leaderboard, playerCount)
    /\ last' = Called("GetTopPlayersFromLeaderboard", 0, playerCount, TRUE,
                       leaderboard.scoreCount)
    /\ prev' = NoCall
    /\ UNCHANGED <<leaderboard, file, running, gameVars, threadVars>>

(***************************************************************************)
(* Sequential callers.                                                     *)
(***************************************************************************)
NoThread == "NoThread"

Threads == {"t1", "t2"}

Idle == [op |-> "none", identifier |-> 0, arg |-> <<>>]

NoLocal == [x |-> NotFound, append |-> FALSE, out |-> <<>>, ret |-> FALSE]

Init ==
    /\ currentGameState = ZeroGameState
    /\ leaderboard = ZeroLeaderboard
    /\ file = NoFile
    /\ running = TRUE
    /\ last = NoCall
    /\ prev = NoCall
    /\ outTransform = ZeroTransform
    /\ outPlayer = [score |-> 0, lives |-> 0]
    /\ topScores = <<>>
    /\ objWritten = {}
    /\ plWritten = {}
    /\ gameStateMutex = NoThread
    /\ leaderboardMutex = NoThread
    /\ pc = [t \in Threads |-> "idle"]
    /\ call = [t \in Threads |-> Idle]
    /\ local = [t \in Threads |-> NoLocal]
    /\ objCalls = {}
    /\ scoreCalls = {}

\* callers of the object operations
NextObjects ==
    \/ \E identifier \in ObjectIds, tr \in Transforms :
         SetNetworkObject(identifier, tr)
    \/ \E identifier \in ObjectIds : GetNetworkObject(identifier)

SpecObjects == Init /\ [][NextObjects]_vars

\* callers of all four game state operations, one value per identifier
OneTransform == { [position |-> 1, velocity |-> 2, scale |-> 3] }

OnePlayerValue == { [score |-> 1, lives |-> 2] }

NextGame ==
    \/ \E identifier \in ObjectIds, tr \in OneTransform :
         SetNetworkObject(identifier, tr)
    \/ \E identifier \in ObjectIds : GetNetworkObject(identifier)
    \/ \E identifier \in PlayerIds, pv \in OnePlayerValue :
         SetNetworkPlayerData(identifier, pv)
    \/ \E identifier \in PlayerIds : GetNetworkPlayerData(identifier)

SpecGame == Init /\ [][NextGame]_vars

\* callers of the two upserts, storing and storing again as many identifiers
\* as each table holds, with either value
NextUpsert ==
    \/ \E identifier \in 0..(MAX_NETWORK_OBJECTS - 1), tr \in Transforms :
         SetNetworkObject(identifier, tr)
    \/ \E identifier \in 0..(MAX_PLAYERS - 1), pv \in PlayerValues :
         SetNetworkPlayerData(identifier, pv)

SpecUpsert == Init /\ [][NextUpsert]_vars

\* callers of the admission and the query
ScoreIds == {1, 2}

\* a name of MAX_NAME_LENGTH characters and a timestamp of TIME_FORMAT
\* characters: as long as the strncpy_s count
LongName == [i \in 1..MAX_NAME_LENGTH |-> "A"]

LongTimestamp == [i \in 1..TIME_FORMAT |-> "T"]

\* names and timestamps that leave room for the NUL
Names == { <<"A">>, <<"B">> }

Scores == {0, 7, 10}

Timestamps == { <<"T">> }

NextBoard ==
    \/ \E identifier \in ScoreIds, name \in Names, score \in Scores,
          timestamp \in Timestamps :
         AddScoreToLeaderboard(identifier, name, score, timestamp)
    \/ \E playerCount \in 0..(MAX_LEADERBOARD_SCORES + 1) :
         GetTopPlayersFromLeaderboard(playerCount)

SpecBoard == Init /\ [][NextBoard]_vars

\* callers of the admission, the save and the load
PersistScores == {7, 10}

NextPersist ==
    \/ \E name \in {<<"A">>, <<"B">>}, score \in PersistScores :
         AddScoreToLeaderboard(1, name, score, <<"T">>)
    \/ \E opened \in BOOLEAN : SaveLeaderboard(opened)
    \/ \E opened \in BOOLEAN : LoadLeaderboard(opened)

SpecPersist == Init /\ [][NextPersist]_vars

\* callers of the admission with names and timestamps that fit their fields,
\* that are as long as the strncpy_s count, and that are longer
NextNames ==
    \E name \in {<<"A">>, LongName, LongName \o <<"B">>},
       score \in PersistScores,
       timestamp \in {<<"T">>, LongTimestamp, LongTimestamp \o <<"U">>} :
        AddScoreToLeaderboard(1, name, score, timestamp)

SpecNames == Init /\ [][NextNames]_vars

\* callers of the admission, the save and the load, with files at the path
\* that the program did not write: a record whose every slot is ForeignEntry,
\* with a count inside or outside the array, cut after any number of units
ForeignEntry == [identifier |-> 9, name |-> <<"Z">>, score |-> 9, timestamp |-> <<"T">>]

ForeignRecords ==
    { [ scores     |-> [x \in 0..(MAX_LEADERBOARD_SCORES - 1) |-> ForeignEntry],
        scoreCount |-> n ] : n \in {1, MAX_LEADERBOARD_SCORES + 1} }

ForeignFiles ==
    { [exists |-> TRUE, data |-> ReadInto(ZeroLeaderboard, r, n), length |-> n] :
        r \in ForeignRecords, n \in 0..RecordUnits }

NextFiles ==
    \/ \E score \in PersistScores :
         AddScoreToLeaderboard(1, <<"A">>, score, <<"T">>)
    \/ \E opened \in BOOLEAN : SaveLeaderboard(opened)
    \/ \E opened \in BOOLEAN : LoadLeaderboard(opened)
    \/ \E f \in ForeignFiles : FileReplaced(f)

SpecFiles == Init /\ [][NextFiles]_vars


(***************************************************************************)
(* Concurrent callers.  A thread makes a call (T_Call), constructs the     *)
(* std::lock_guard on the store's mutex (T_Lock), runs the body and        *)
(* returns, which destroys the guard (T_Return).  The body of the two      *)
(* object operations is taken one member access at a time; the bodies of   *)
(* the other operations are taken whole.                                   *)
(***************************************************************************)
ObjectOps == {"SetNetworkObject", "GetNetworkObject"}

PlayerOps == {"SetNetworkPlayerData", "GetNetworkPlayerData"}

GameOps == ObjectOps \cup PlayerOps

BoardOps == {"AddScoreToLeaderboard", "SaveLeaderboard", "LoadLeaderboard",
             "GetTopPlayersFromLeaderboard"}

\* mutant: the guard is constructed without waiting for the mutex
MutexFreeAlways(owner) == TRUE

\* std::lock_guard<std::mutex> lock(m) returns once no thread owns m
MutexFree(owner) == owner = NoThread

\* mutant: a return of false leaves the mutex locked
UnlockOnSuccessOnly(owner, t, ret) ==
    IF owner = t /\ ret THEN NoThread ELSE owner

\* ~lock_guard at every return statement, whatever is returned
UnlockAtReturn(owner, t, ret) == IF owner = t THEN NoThread ELSE owner

T_Call(t, c) ==
    /\ running
    /\ pc[t] = "idle"
    /\ pc' = [pc EXCEPT ![t] = "lock"]
    /\ call' = [call EXCEPT ![t] = c]
    /\ local' = [local EXCEPT ![t] = NoLocal]
    /\ objCalls' = IF c.op = "SetNetworkObject"
                   THEN objCalls \cup {<<c.identifier, c.arg>>}
                   ELSE objCalls
    /\ scoreCalls' = IF c.op = "AddScoreToLeaderboard"
                     THEN scoreCalls \cup {<<c.identifier, c.arg>>}
                     ELSE scoreCalls
    /\ UNCHANGED <<gameStateMutex, leaderboardMutex, gameVars, boardVars,
                   last, prev>>

T_Lock(t) ==
    /\ running
    /\ pc[t] = "lock"
    /\ IF call[t].op \in GameOps
       THEN /\ MutexFree(gameStateMutex)
            /\ gameStateMutex' = t
            /\ UNCHANGED leaderboardMutex
       ELSE /\ MutexFree(leaderboardMutex)
            /\ leaderboardMutex' = t
            /\ UNCHANGED gameStateMutex
    /\ pc' = [pc EXCEPT ![t] = IF call[t].op \in ObjectOps THEN "scan" ELSE "body"]
    /\ UNCHANGED <<call, local, objCalls, scoreCalls, gameVars, boardVars, last, prev>>

\* the scan loop of SetNetworkObject / GetNetworkObject, and for an append
\* index = objectCount and the store of the identifier
T_Scan(t) ==
    LET c == call[t]
        x == FindObject(currentGameState, c.identifier)
        index == currentGameState.objectCount
    IN  /\ running
        /\ pc[t] = "scan"
        /\ IF x # NotFound
           THEN /\ local' = [local EXCEPT ![t].x = x]
                /\ pc' = [pc EXCEPT ![t] = "position"]
                /\ UNCHANGED currentGameState
           ELSE IF c.op = "SetNetworkObject" /\ ObjectRoom(currentGameState)
           THEN /\ local' = [local EXCEPT ![t].x = index, ![t].append = TRUE]
                /\ currentGameState' =
                     [currentGameState EXCEPT !.objects[index].identifier =
                                                 c.identifier]
                /\ pc' = [pc EXCEPT ![t] = "position"]
           ELSE /\ local' = [local EXCEPT ![t].ret = FALSE]
                /\ pc' = [pc EXCEPT ![t] = "return"]
                /\ UNCHANGED currentGameState
        /\ UNCHANGED <<gameStateMutex, leaderboardMutex, call, objCalls, scoreCalls,
                       outTransform, outPlayer, objWritten, plWritten,
                       boardVars, last, prev>>

\* one member of the transform: stored by SetNetworkObject, read into the
\* caller's argument by GetNetworkObject
Member(t, member, next) ==
    LET c == call[t]
        x == local[t].x
    IN  /\ running
        /\ pc[t] = member
        /\ IF c.op = "SetNetworkObject"
           THEN /\ currentGameState' =
                     [currentGameState EXCEPT
                        !.objects[x].transform[member] = c.arg[member]]
                /\ local' = [local EXCEPT ![t].ret = (next = "return")]
           ELSE /\ local' = [local EXCEPT
                     ![t].out = (member :> currentGameState.objects[x].transform[member])
                                  @@ local[t].out,
                     ![t].ret = (next = "return")]
                /\ UNCHANGED currentGameState
        /\ pc' = [pc EXCEPT ![t] = next]
        /\ UNCHANGED <<gameStateMutex, leaderboardMutex, call, objCalls, scoreCalls,
                       outTransform, outPlayer, objWritten, plWritten,
                       boardVars, last, prev>>

T_Position(t) == Member(t, "position", "velocity")

T_Velocity(t) == Member(t, "velocity", "scale")

T_Scale(t) ==
    Member(t, "scale", IF local[t].append THEN "count" ELSE "return")

\* ++currentGameState.objectCount; return true
T_Count(t) ==
    /\ running
    /\ pc[t] = "count"
    /\ currentGameState' =
         [currentGameState EXCEPT !.objectCount = currentGameState.objectCount + 1]
    /\ local' = [local EXCEPT ![t].ret = TRUE]
    /\ pc' = [pc EXCEPT ![t] = "return"]
    /\ UNCHANGED <<gameStateMutex, leaderboardMutex, call, objCalls, scoreCalls,
                   outTransform, outPlayer, objWritten, plWritten,
                   boardVars, last, prev>>

\* the body of SetNetworkPlayerData / GetNetworkPlayerData
T_PlayerBody(t) ==
    LET c == call[t]
        x == FindPlayer(currentGameState, c.identifier)
    IN  /\ running
        /\ pc[t] = "body"
        /\ c.op \in PlayerOps
        /\ IF c.op = "SetNetworkPlayerData"
           THEN /\ currentGameState' =
                     SetPlayerState(currentGameState, c.identifier, c.arg)
                /\ local' = [local EXCEPT
                     ![t].ret = SetPlayerReturn(currentGameState, c.identifier)]
           ELSE /\ local' = [local EXCEPT
                     ![t].ret = (x # NotFound),
                     ![t].out = IF x # NotFound
                                THEN [score |-> currentGameState.playerData[x].score,
                                      lives |-> currentGameState.playerData[x].lives]
                                ELSE local[t].out]
                /\ UNCHANGED currentGameState
        /\ pc' = [pc EXCEPT ![t] = "return"]
        /\ UNCHANGED <<gameStateMutex, leaderboardMutex, call, objCalls, scoreCalls,
                       outTransform, outPlayer, objWritten, plWritten,
                       boardVars, last, prev>>

\* the body of a leaderboard operation
T_BoardBody(t) ==
    LET c == call[t]
    IN  /\ running
        /\ pc[t] = "body"
        /\ c.op \in BoardOps
        /\ CASE c.op = "AddScoreToLeaderboard" ->
                  \E o \in AddScoreOutcomes(leaderboard, c.identifier, c.arg.name,
                                            c.arg.score, c.arg.timestamp) :
                     /\ leaderboard' = o.leaderboard
                     /\ running' = o.returned
                     /\ local' = [local EXCEPT ![t].ret = o.ret]
                     /\ UNCHANGED file
             [] c.op = "SaveLeaderboard" ->
                  \E opened \in BOOLEAN :
                     /\ file' = IF opened THEN Written(leaderboard) ELSE file
                     /\ local' = [local EXCEPT ![t].ret = opened]
                     /\ UNCHANGED <<leaderboard, running>>
             [] c.op = "LoadLeaderboard" ->
                  \E opened \in BOOLEAN :
                     /\ opened => file.exists
                     /\ leaderboard' = LoadOutcome(leaderboard, file, opened)
                     /\ local' = [local EXCEPT ![t].ret = opened]
                     /\ UNCHANGED <<file, running>>
             [] c.op = "GetTopPlayersFromLeaderboard" ->
                  /\ local' = [local EXCEPT
                       ![t].out = TopPlayers(leaderboard, c.arg), ![t].ret = TRUE]
                  /\ UNCHANGED <<leaderboard, file, running>>
        /\ pc' = [pc EXCEPT ![t] = "return"]
        /\ UNCHANGED <<gameStateMutex, leaderboardMutex, call, objCalls, scoreCalls,
                       topScores, gameVars, last, prev>>

\* file.write taken one unit at a time: unit u of the record image stored
\* into the file's record data
WriteUnit(data, image, u) ==
    [ scores     |-> [x \in DOMAIN data.scores |->
                        IF x = u THEN image.scores[x] ELSE data.scores[x]],
      scoreCount |-> IF u = CountUnit THEN image.scoreCount ELSE data.scoreCount ]

\* SaveLeaderboard's std::ofstream file(filename, std::ios::binary): a good
\* stream has truncated the file
T_SaveOpen(t) ==
    /\ running
    /\ pc[t] = "body"
    /\ call[t].op = "SaveLeaderboard"
    /\ \E opened \in BOOLEAN :
         IF opened
         THEN /\ file' = [exists |-> TRUE, data |-> ZeroLeaderboard, length |-> 0]
              /\ local' = [local EXCEPT ![t].x = 0, ![t].ret = TRUE]
              /\ pc' = [pc EXCEPT ![t] = "write"]
         ELSE /\ local' = [local EXCEPT ![t].ret = FALSE]
              /\ pc' = [pc EXCEPT ![t] = "return"]
              /\ UNCHANGED file
    /\ UNCHANGED <<gameStateMutex, leaderboardMutex, call, objCalls, scoreCalls,
                   leaderboard, running, topScores, gameVars, last, prev>>

\* SaveLeaderboard's file.write, the next unit of the record: it is copied
\* from the leaderboard as it is in memory at this moment
T_SaveWrite(t) ==
    LET u == local[t].x
    IN  /\ running
        /\ pc[t] = "write"
        /\ file' = [file EXCEPT
                      !.data = WriteUnit(file.data, FileImage(leaderboard), u),
                      !.length = IF u + 1 > file.length THEN u + 1 ELSE file.length]
        /\ local' = [local EXCEPT ![t].x = u + 1]
        /\ pc' = [pc EXCEPT ![t] = IF u + 1 = RecordUnits THEN "return" ELSE "write"]
        /\ UNCHANGED <<gameStateMutex, leaderboardMutex, call, objCalls, scoreCalls,
                       leaderboard, running, topScores, gameVars, last, prev>>

\* the return statement: the guard goes out of scope.  Of the call only the
\* operation and the value returned are kept, for the properties to read.
T_Return(t) ==
    /\ running
    /\ pc[t] = "return"
    /\ gameStateMutex' = IF call[t].op \in GameOps
                         THEN UnlockAtReturn(gameStateMutex, t, local[t].ret)
                         ELSE gameStateMutex
    /\ leaderboardMutex' = IF call[t].op \in BoardOps
                           THEN UnlockAtReturn(leaderboardMutex, t, local[t].ret)
                           ELSE leaderboardMutex
    /\ pc' = [pc EXCEPT ![t] = "idle"]
    /\ call' = [call EXCEPT ![t] = [Idle EXCEPT !.op = call[t].op]]
    /\ local' = [local EXCEPT ![t] = [NoLocal EXCEPT !.ret = local[t].ret]]
    /\ UNCHANGED <<objCalls, scoreCalls, gameVars, boardVars, last, prev>>

\* threads calling the two object operations on identifiers 0 and 1
ObjectCalls ==
    { [op |-> "SetNetworkObject", identifier |-> i, arg |-> tr] :
        i \in {0, 1}, tr \in Transforms }
    \cup { [op |-> "GetNetworkObject", identifier |-> i, arg |-> <<>>] :
             i \in {0, 1} }

NextObjectThreads ==
    \E t \in Threads :
        \/ \E c \in ObjectCalls : T_Call(t, c)
        \/ T_Lock(t)
        \/ T_Scan(t)
        \/ T_Position(t)
        \/ T_Velocity(t)
        \/ T_Scale(t)
        \/ T_Count(t)
        \/ T_Return(t)

SpecObjectThreads == Init /\ [][NextObjectThreads]_vars

\* threads calling the two upserts: objects with every identifier, players
\* with identifiers 0 and 1
SetCalls ==
    { [op |-> "SetNetworkObject", identifier |-> i, arg |-> tr] :
        i \in ObjectIds, tr \in OneTransform }
    \cup { [op |-> "SetNetworkPlayerData", identifier |-> i, arg |-> pv] :
             i \in {0, 1}, pv \in OnePlayerValue }

NextSetThreads ==
    \E t \in Threads :
        \/ \E c \in SetCalls : T_Call(t, c)
        \/ T_Lock(t)
        \/ T_Scan(t)
        \/ T_Position(t)
        \/ T_Velocity(t)
        \/ T_Scale(t)
        \/ T_Count(t)
        \/ T_PlayerBody(t)
        \/ T_Return(t)

SpecSetThreads == Init /\ [][NextSetThreads]_vars

\* threads calling the admission, the save and the load; the save writes
\* its record unit by unit
PersistCalls ==
    { [op |-> "AddScoreToLeaderboard", identifier |-> 1,
       arg |-> [name |-> <<"A">>, score |-> sc, timestamp |-> <<"T">>]] :
        sc \in PersistScores }
    \cup { [op |-> o, identifier |-> 0, arg |-> <<>>] :
             o \in {"SaveLeaderboard", "LoadLeaderboard"} }

NextPersistThreads ==
    \E t \in Threads :
        \/ \E c \in PersistCalls : T_Call(t, c)
        \/ T_Lock(t)
        \/ (call[t].op # "SaveLeaderboard" /\ T_BoardBody(t))
        \/ T_SaveOpen(t)
        \/ T_SaveWrite(t)
        \/ T_Return(t)

SpecPersistThreads == Init /\ [][NextPersistThreads]_vars

\* threads submitting scores: MaxAdds calls in all, each under its own
\* identifier, the identifiers handed out in the order the calls are made
MaxAdds == 3

AddCalls ==
    { [op |-> "AddScoreToLeaderboard", identifier |-> i,
       arg |-> [name |-> <<"A">>, score |-> sc, timestamp |-> <<"T">>]] :
        i \in 1..MaxAdds, sc \in Scores }

NextAddThreads ==
    \E t \in Threads :
        \/ \E c \in AddCalls :
             c.identifier = Cardinality(scoreCalls) + 1 /\ T_Call(t, c)
        \/ T_Lock(t)
        \/ T_BoardBody(t)
        \/ T_Return(t)

SpecAddThreads == Init /\ [][NextAddThreads]_vars

\* threads calling all eight operations
AllCalls ==
    { [op |-> "SetNetworkObject", identifier |-> i, arg |-> tr] :
        i \in ObjectIds, tr \in OneTransform }
    \cup { [op |-> "GetNetworkObject", identifier |-> i, arg |-> <<>>] :
             i \in {0} }
    \cup { [op |-> "SetNetworkPlayerData", identifier |-> i, arg |-> pv] :
             i \in PlayerIds, pv \in OnePlayerValue }
    \cup { [op |-> "GetNetworkPlayerData", identifier |-> i, arg |-> <<>>] :
             i \in {0} }
    \cup { [op |-> "AddScoreToLeaderboard", identifier |-> 1,
            arg |-> [name |-> <<"A">>, score |-> sc, timestamp |-> <<"T">>]] :
             sc \in PersistScores }
    \cup { [op |-> o, identifier |-> 0, arg |-> <<>>] :
             o \in {"SaveLeaderboard", "LoadLeaderboard"} }
    \cup { [op |-> "GetTopPlayersFromLeaderboard", identifier |-> 0, arg |-> 1] }

\* the callers of one run work on one store: every call is on the store the
\* run's first call was on
Serves(op) ==
    \A u \in Threads :
        \/ call[u].op = "none"
        \/ (op \in GameOps /\ call[u].op \in GameOps)
        \/ (op \in BoardOps /\ call[u].op \in BoardOps)

\* the callers number their objects and players consecutively: identifier i
\* is first stored when i entries are in the table
Numbered(c) ==
    /\ c.op = "SetNetworkObject" => c.identifier <= currentGameState.objectCount
    /\ c.op = "SetNetworkPlayerData" => c.identifier <= currentGameState.playerCount

NextThreads ==
    \E t \in Threads :
        \/ \E c \in AllCalls : Serves(c.op) /\ Numbered(c) /\ T_Call(t, c)
        \/ T_Lock(t)
        \/ T_Scan(t)
        \/ T_Position(t)
        \/ T_Velocity(t)
        \/ T_Scale(t)
        \/ T_Count(t)
        \/ T_PlayerBody(t)
        \/ T_BoardBody(t)
        \/ T_Return(t)

SpecThreads == Init /\ [][NextThreads]_vars

\* three threads calling a mix of operations on both stores at once: an
\* upsert and a query that misses on the game state, the admission on the
\* leaderboard
MoreThreads == {"t1", "t2", "t3"}

InitMoreThreads ==
    /\ currentGameState = ZeroGameState
    /\ leaderboard = ZeroLeaderboard
    /\ file = NoFile
    /\ running = TRUE
    /\ last = NoCall
    /\ prev = NoCall
    /\ outTransform = ZeroTransform
    /\ outPlayer = [score |-> 0, lives |-> 0]
    /\ topScores = <<>>
    /\ objWritten = {}
    /\ plWritten = {}
    /\ gameStateMutex = NoThread
    /\ leaderboardMutex = NoThread
    /\ pc = [t \in MoreThreads |-> "idle"]
    /\ call = [t \in MoreThreads |-> Idle]
    /\ local = [t \in MoreThreads |-> NoLocal]
    /\ objCalls = {}
    /\ scoreCalls = {}

MixedCalls ==
    { [op |-> "SetNetworkObject", identifier |-> 0, arg |-> tr] : tr \in OneTransform }
    \cup { [op |-> "GetNetworkPlayerData", identifier |-> 1, arg |-> <<>>] }
    \cup { [op |-> "AddScoreToLeaderboard", identifier |-> 1,
            arg |-> [name |-> <<"A">>, score |-> 7, timestamp |-> <<"T">>]] }

\* the steps of thread t once it has the mutex
Runs(t) ==
    \/ T_Scan(t)
    \/ T_Position(t)
    \/ T_Velocity(t)
    \/ T_Scale(t)
    \/ T_Count(t)
    \/ T_PlayerBody(t)
    \/ T_BoardBody(t)
    \/ T_Return(t)

NextMixed ==
    \E t \in MoreThreads :
        \/ \E c \in MixedCalls : T_Call(t, c)
        \/ T_Lock(t)
        \/ Runs(t)

\* fair scheduling: a thread that can run does run, and a thread waiting for
\* a mutex that is free again and again does get it
FairScheduling ==
    \A t \in MoreThreads : WF_vars(Runs(t)) /\ SF_vars(T_Lock(t))

SpecMixedFair == InitMoreThreads /\ [][NextMixed]_vars /\ FairScheduling

(***************************************************************************)
(* Properties of the game state store.                                     *)
(***************************************************************************)
\* C1: SetNetworkObject calls with identifiers not stored before succeed
\* while fewer than MAX_NETWORK_OBJECTS identifiers are stored, each adding
\* one entry; once MAX_NETWORK_OBJECTS are stored, a call with a further new
\* identifier returns false and leaves objectCount and every entry as they
\* were.
C1_CapacityExhausted ==
    [][ (last'.op = "SetNetworkObject" /\ last'.identifier \notin objWritten)
        => IF Cardinality(objWritten) < MAX_NETWORK_OBJECTS
           THEN /\ last'.ret
                /\ currentGameState'.objectCount = currentGameState.objectCount + 1
                /\ objWritten' = objWritten \cup {last'.identifier}
           ELSE /\ ~last'.ret
                /\ currentGameState' = currentGameState ]_vars

C1_Witness ==
    /\ last.op = "SetNetworkObject"
    /\ ~last.ret
    /\ last.identifier \notin objWritten
    /\ Cardinality(objWritten) = MAX_NETWORK_OBJECTS
    /\ currentGameState.objectCount = MAX_NETWORK_OBJECTS

\* C2: a GetNetworkObject(id) made right after a SetNetworkObject(id, p, v, s)
\* that returned true returns true and hands back exactly p, v and s.
C2_RoundTrip ==
    (/\ last.op = "GetNetworkObject"
     /\ prev.op = "SetNetworkObject"
     /\ prev.ret
     /\ prev.identifier = last.identifier)
    => (last.ret /\ outTransform = prev.arg)

C2_Witness ==
    /\ last.op = "GetNetworkObject"
    /\ prev.op = "SetNetworkObject"
    /\ prev.ret
    /\ prev.identifier = last.identifier
    /\ outTransform = prev.arg
    /\ prev.count = MAX_NETWORK_OBJECTS
    /\ currentGameState.objects[MAX_NETWORK_OBJECTS - 1].identifier = last.identifier

\* C3: GetNetworkObject and GetNetworkPlayerData with an identifier that was
\* never stored return false and change neither table, neither count, nor the
\* caller's output arguments.
C3_MissChangesNothing ==
    [][ /\ (last'.op = "GetNetworkObject" /\ last'.identifier \notin objWritten)
           => /\ ~last'.ret
              /\ currentGameState' = currentGameState
              /\ outTransform' = outTransform
              /\ outPlayer' = outPlayer
        /\ (last'.op = "GetNetworkPlayerData" /\ last'.identifier \notin plWritten)
           => /\ ~last'.ret
              /\ currentGameState' = currentGameState
              /\ outTransform' = outTransform
              /\ outPlayer' = outPlayer ]_vars

C3_Witness ==
    /\ last.op = "GetNetworkObject"
    /\ ~last.ret
    /\ last.identifier \notin objWritten
    /\ prev.op = "GetNetworkPlayerData"
    /\ ~prev.ret
    /\ prev.identifier \notin plWritten
    /\ currentGameState.objectCount > 0
    /\ currentGameState.playerCount > 0
    /\ outTransform # ZeroTransform
    /\ outPlayer # [score |-> 0, lives |-> 0]

\* C14: the object table and the player table are independent:
\* SetNetworkPlayerData changes neither objectCount nor any object entry,
\* SetNetworkObject changes neither playerCount nor any player entry, and
\* whether a call succeeds depends on its own table alone, so an identifier
\* can be in both tables and a full table does not fail the other's inserts.
C14_TablesIndependent ==
    [][ /\ last'.op = "SetNetworkPlayerData"
           => /\ currentGameState'.objects = currentGameState.objects
              /\ currentGameState'.objectCount = currentGameState.objectCount
              /\ last'.ret = (\/ last'.identifier \in plWritten
                              \/ Cardinality(plWritten) < MAX_PLAYERS)
        /\ last'.op = "SetNetworkObject"
           => /\ currentGameState'.playerData = currentGameState.playerData
              /\ currentGameState'.playerCount = currentGameState.playerCount
              /\ last'.ret = (\/ last'.identifier \in objWritten
                              \/ Cardinality(objWritten) < MAX_NETWORK_OBJECTS)
      ]_vars

\* a player has just been inserted with an identifier the full object table
\* holds too
C14_Witness ==
    /\ last.op = "SetNetworkPlayerData"
    /\ last.ret
    /\ currentGameState.playerCount = last.count + 1
    /\ currentGameState.playerData[last.count].identifier = last.identifier
    /\ currentGameState.objectCount = MAX_NETWORK_OBJECTS
    /\ \E x \in 0..(MAX_NETWORK_OBJECTS - 1) :
         currentGameState.objects[x].identifier = last.identifier
    /\ last.identifier \in objWritten

\* C17: SetNetworkObject and SetNetworkPlayerData with an identifier already
\* stored return true, a full table included, store the new values in that
\* entry, and leave the count, the entry's slot and every other entry as
\* they were.
C17_OverwriteInPlace ==
    [][ /\ (last'.op = "SetNetworkObject" /\ last'.identifier \in objWritten)
           => /\ last'.ret
              /\ currentGameState'.objectCount = currentGameState.objectCount
              /\ currentGameState'.playerData = currentGameState.playerData
              /\ currentGameState'.playerCount = currentGameState.playerCount
              /\ \E x \in 0..(currentGameState.objectCount - 1) :
                   /\ currentGameState.objects[x].identifier = last'.identifier
                   /\ currentGameState'.objects =
                        [currentGameState.objects EXCEPT ![x].transform = last'.arg]
        /\ (last'.op = "SetNetworkPlayerData" /\ last'.identifier \in plWritten)
           => /\ last'.ret
              /\ currentGameState'.playerCount = currentGameState.playerCount
              /\ currentGameState'.objects = currentGameState.objects
              /\ currentGameState'.objectCount = currentGameState.objectCount
              /\ \E x \in 0..(currentGameState.playerCount - 1) :
                   /\ currentGameState.playerData[x].identifier = last'.identifier
                   /\ currentGameState'.playerData =
                        [currentGameState.playerData EXCEPT
                           ![x].score = last'.arg.score,
                           ![x].lives = last'.arg.lives]
      ]_vars

\* the last slot of the full player table has just been given new values,
\* unlike those of the slot before it
C17_Witness ==
    /\ last.op = "SetNetworkPlayerData"
    /\ last.ret
    /\ last.count = MAX_PLAYERS
    /\ currentGameState.playerCount = MAX_PLAYERS
    /\ currentGameState.playerData[MAX_PLAYERS - 1].identifier = last.identifier
    /\ currentGameState.playerData[MAX_PLAYERS - 1].score = last.arg.score
    /\ currentGameState.playerData[MAX_PLAYERS - 1].lives = last.arg.lives
    /\ currentGameState.playerData[MAX_PLAYERS - 2].score # last.arg.score
    /\ currentGameState.objectCount = MAX_NETWORK_OBJECTS

\* C13: however SetNetworkObject and SetNetworkPlayerData calls interleave,
\* two threads inserting the same new identifier included, no two live
\* object entries share an identifier and no two live player entries do.
C13_UniqueIdentifiers ==
    /\ \A x, y \in 0..(currentGameState.objectCount - 1) :
         x # y => currentGameState.objects[x].identifier
                    # currentGameState.objects[y].identifier
    /\ \A x, y \in 0..(currentGameState.playerCount - 1) :
         x # y => currentGameState.playerData[x].identifier
                    # currentGameState.playerData[y].identifier

\* one thread has just appended an identifier and still holds the mutex,
\* the other waits to store the same identifier
C13_Witness ==
    \E t, u \in Threads :
        /\ t # u
        /\ call[t].op = "SetNetworkObject"
        /\ pc[t] = "return"
        /\ local[t].append
        /\ call[u].op = "SetNetworkObject"
        /\ pc[u] = "lock"
        /\ call[u].identifier = call[t].identifier
        /\ currentGameState.objectCount = MAX_NETWORK_OBJECTS
        /\ currentGameState.playerCount = MAX_PLAYERS

(***************************************************************************)
(* Properties of the leaderboard.                                          *)
(***************************************************************************)
LiveSlots(lb) == 0..(lb.scoreCount - 1)

SortedDescending(lb) ==
    \A x \in LiveSlots(lb) :
        (x + 1) \in LiveSlots(lb) => lb.scores[x].score >= lb.scores[x + 1].score

MinScore(lb) ==
    CHOOSE m \in { lb.scores[x].score : x \in LiveSlots(lb) } :
        \A x \in LiveSlots(lb) : m <= lb.scores[x].score

\* how often entry e is among the live entries
Occurrences(lb, e) == Cardinality({ x \in LiveSlots(lb) : lb.scores[x] = e })

LiveEntries(lb) == { lb.scores[x] : x \in LiveSlots(lb) }

\* the entry an AddScoreToLeaderboard call c asked to store
EntryOf(c) ==
    [identifier |-> c.identifier, name |-> c.arg.name, score |-> c.arg.score,
     timestamp |-> c.arg.timestamp]

\* C4: after every AddScoreToLeaderboard call that returned true the live
\* slice scores[0..scoreCount) is sorted non-increasing by score.
C4_SortedAfterAdd ==
    (running /\ last.op = "AddScoreToLeaderboard" /\ last.ret)
    => SortedDescending(leaderboard)

C4_Witness ==
    /\ running
    /\ last.op = "AddScoreToLeaderboard"
    /\ last.ret
    /\ last.count = MAX_LEADERBOARD_SCORES
    /\ leaderboard.scores[0] = EntryOf(last)
    /\ leaderboard.scores[0].score > leaderboard.scores[1].score

\* C5: on a full leaderboard, AddScoreToLeaderboard with a score less than or
\* equal to the table's minimum score returns false and leaves scoreCount and
\* every entry as they were.
C5_RejectAtCapacity ==
    [][ (/\ last'.op = "AddScoreToLeaderboard"
         /\ leaderboard.scoreCount = MAX_LEADERBOARD_SCORES
         /\ last'.arg.score <= MinScore(leaderboard))
        => (running' /\ ~last'.ret /\ leaderboard' = leaderboard) ]_vars

C5_Witness ==
    /\ running
    /\ last.op = "AddScoreToLeaderboard"
    /\ ~last.ret
    /\ last.count = MAX_LEADERBOARD_SCORES
    /\ last.arg.score = MinScore(leaderboard)

\* C6: on a full leaderboard, AddScoreToLeaderboard with a score strictly
\* greater than the table's minimum score returns true; the live entries are
\* then the previous ones with exactly one minimum-score entry taken out and
\* the new entry put in, and scoreCount is still MAX_LEADERBOARD_SCORES.
C6_ReplaceMinimum ==
    [][ (/\ last'.op = "AddScoreToLeaderboard"
         /\ leaderboard.scoreCount = MAX_LEADERBOARD_SCORES
         /\ last'.arg.score > MinScore(leaderboard))
        => /\ running'
           /\ last'.ret
           /\ leaderboard'.scoreCount = MAX_LEADERBOARD_SCORES
           /\ \E x \in LiveSlots(leaderboard) :
                /\ leaderboard.scores[x].score = MinScore(leaderboard)
                /\ \A e \in LiveEntries(leaderboard) \cup LiveEntries(leaderboard')
                              \cup {EntryOf(last')} :
                     Occurrences(leaderboard', e) =
                        Occurrences(leaderboard, e)
                        - (IF e = leaderboard.scores[x] THEN 1 ELSE 0)
                        + (IF e = EntryOf(last') THEN 1 ELSE 0) ]_vars

C6_Witness ==
    /\ running
    /\ last.op = "AddScoreToLeaderboard"
    /\ last.ret
    /\ last.count = MAX_LEADERBOARD_SCORES
    /\ leaderboard.scoreCount = MAX_LEADERBOARD_SCORES
    /\ EntryOf(last) \in LiveEntries(leaderboard)
    /\ \E x \in LiveSlots(leaderboard) :
         leaderboard.scores[x].score = last.arg.score
         /\ leaderboard.scores[x] # EntryOf(last)

\* C7: SaveLeaderboard leaves the leaderboard in memory as it is, and a
\* LoadLeaderboard made right after a SaveLeaderboard, both files opening,
\* leaves scoreCount and every entry, in order, as they were before the save.
C7_SaveLoadRoundTrip ==
    [][ /\ last'.op = "SaveLeaderboard" => leaderboard' = leaderboard
        /\ (/\ last.op = "SaveLeaderboard"
            /\ last.ret
            /\ last'.op = "LoadLeaderboard"
            /\ last'.ret)
           => leaderboard' = leaderboard ]_vars

C7_Witness ==
    /\ last.op = "LoadLeaderboard"
    /\ last.ret
    /\ prev.op = "SaveLeaderboard"
    /\ prev.ret
    /\ leaderboard.scoreCount = MAX_LEADERBOARD_SCORES
    /\ leaderboard.scores[0].score > leaderboard.scores[1].score

\* the decimal text of the numbers the callers use, written out
Shown(n) ==
    CASE n = 0 -> <<"0">>  [] n = 1 -> <<"1">>  [] n = 2 -> <<"2">>
      [] n = 3 -> <<"3">>  [] n = 4 -> <<"4">>  [] n = 5 -> <<"5">>
      [] n = 6 -> <<"6">>  [] n = 7 -> <<"7">>  [] n = 8 -> <<"8">>
      [] n = 9 -> <<"9">>  [] n = 10 -> <<"1", "0">>

\* string str is "<rank>) <name>: <score> [<timestamp>]" for entry e
Carries(str, rank, e) ==
    str = Shown(rank) \o <<")", " ">> \o e.name \o <<":", " ">>
            \o Shown(e.score) \o <<" ", "[">> \o e.timestamp \o <<"]">>

\* C11: LoadLeaderboard never leaves the leaderboard partially overwritten:
\* after the call it is either entirely the record of the file or exactly
\* what it was before the call, a file shorter than the record included.
C11_LoadAllOrNothing ==
    [][ last'.op = "LoadLeaderboard"
        => (leaderboard' = file.data \/ leaderboard' = leaderboard) ]_vars

\* C12: when the file cannot be opened, LoadLeaderboard changes neither
\* scoreCount nor any entry, SaveLeaderboard writes nothing and changes
\* nothing in memory, and both return normally.
C12_OpenFailureNoOp ==
    [][ (last'.op \in {"LoadLeaderboard", "SaveLeaderboard"} /\ ~last'.ret)
        => (leaderboard' = leaderboard /\ file' = file /\ running') ]_vars

C12_Witness ==
    /\ last.op = "LoadLeaderboard"
    /\ ~last.ret
    /\ prev.op = "SaveLeaderboard"
    /\ ~prev.ret
    /\ file.exists
    /\ file.data # leaderboard
    /\ leaderboard.scoreCount = MAX_LEADERBOARD_SCORES

\* the first n characters of text src, all of it when it is shorter
Truncated(src, n) == SubSeq(src, 1, Min(Len(src), n))

C16_CountWithinCapacity ==
    leaderboard.scoreCount <= MAX_LEADERBOARD_SCORES

\* C8: GetTopPlayersFromLeaderboard(k) returns exactly min(k, scoreCount)
\* strings, k = 0 and k > scoreCount included; the i-th (from 0) carries rank
\* i + 1 and the name, score and timestamp of scores[i]; the leaderboard is
\* not modified.
C8_TopPlayers ==
    [][ last'.op = "GetTopPlayersFromLeaderboard"
        => /\ leaderboard' = leaderboard
           /\ file' = file
           /\ Len(topScores') = Min(last'.arg, leaderboard.scoreCount)
           /\ \A i \in 0..(Len(topScores') - 1) :
                Carries(topScores'[i + 1], i + 1, leaderboard.scores[i]) ]_vars

C8_Witness ==
    /\ last.op = "GetTopPlayersFromLeaderboard"
    /\ last.arg > leaderboard.scoreCount
    /\ leaderboard.scoreCount = MAX_LEADERBOARD_SCORES
    /\ Len(topScores) = MAX_LEADERBOARD_SCORES
    /\ topScores[1] = <<"1", ")", " ", "A", ":", " ", "1", "0", " ", "[", "T", "]">>

(***************************************************************************)
(* Properties of the locking.                                              *)
(***************************************************************************)
\* where a thread is between the construction of its guard and its return
BodyPcs == {"scan", "position", "velocity", "scale", "count", "body", "write",
            "return"}

InGameSection(t) == call[t].op \in GameOps /\ pc[t] \in BodyPcs

\* C9: however the SetNetworkObject and GetNetworkObject calls of the
\* threads interleave, no two of them are inside the game state critical
\* section at once, and every GetNetworkObject(id) that returns true hands
\* back a (position, velocity, scale) that one single SetNetworkObject(id)
\* call passed, never members of two different calls.
C9_NoTornRead ==
    /\ \A t, u \in Threads :
         t # u => ~(InGameSection(t) /\ InGameSection(u))
    /\ \A t \in Threads :
         (call[t].op = "GetNetworkObject" /\ pc[t] = "return" /\ local[t].ret)
         => <<call[t].identifier, local[t].out>> \in objCalls

C9_Witness ==
    \E t, u \in Threads :
        /\ call[t].op = "GetNetworkObject"
        /\ pc[t] = "return"
        /\ local[t].ret
        /\ local[t].out \in Transforms
        /\ call[u].op = "SetNetworkObject"
        /\ pc[u] = "lock"
        /\ call[u].identifier = call[t].identifier
        /\ call[u].arg # local[t].out
        /\ Cardinality({ w \in objCalls : w[1] = call[t].identifier }) = 2

\* C18: however SaveLeaderboard interleaves with AddScoreToLeaderboard and
\* LoadLeaderboard calls of other threads, the record it has written is the
\* whole leaderboard, scoreCount and all slots, of one moment: when the save
\* returns the file holds exactly the leaderboard as it then is in memory.
C18_SaveSnapshot ==
    \A t \in Threads :
        (call[t].op = "SaveLeaderboard" /\ pc[t] = "return" /\ local[t].ret)
        => (file.exists /\ file.length = RecordUnits /\ file.data = leaderboard)

\* a save has written a full leaderboard while the other thread waits to
\* add a score that will change it
C18_Witness ==
    \E t, u \in Threads :
        /\ call[t].op = "SaveLeaderboard"
        /\ pc[t] = "return"
        /\ local[t].ret
        /\ file.data = leaderboard
        /\ leaderboard.scoreCount = MAX_LEADERBOARD_SCORES
        /\ call[u].op = "AddScoreToLeaderboard"
        /\ pc[u] = "lock"
        /\ call[u].arg.score > leaderboard.scores[MAX_LEADERBOARD_SCORES - 1].score

\* some thread is inside a call and no thread inside a call can take a step
Deadlocked ==
    /\ \E t \in MoreThreads : pc[t] # "idle"
    /\ ~ENABLED (\E t \in MoreThreads : T_Lock(t) \/ Runs(t))

\* thread t waits for one mutex while it owns the other, or owns both
HoldsAndWaits(t) ==
    \/ (pc[t] = "lock" /\ (gameStateMutex = t \/ leaderboardMutex = t))
    \/ (gameStateMutex = t /\ leaderboardMutex = t)

Submitted(v) == Cardinality({ c \in scoreCalls : c[2].score = v })

SubmittedAbove(v) == Cardinality({ c \in scoreCalls : c[2].score > v })

\* how many of the k highest submitted scores equal v
AmongHighest(v, k) ==
    LET room == IF k > SubmittedAbove(v) THEN k - SubmittedAbove(v) ELSE 0
    IN  Min(Submitted(v), room)

\* C20: from an empty leaderboard, once n AddScoreToLeaderboard calls have
\* been made and have returned, however they interleaved, scoreCount is
\* min(n, MAX_LEADERBOARD_SCORES) and the live scores are exactly that many
\* highest scores submitted, each as often as it is among them.
C20_HighestScoresKept ==
    (\A t \in Threads : pc[t] = "idle")
    => LET n == Cardinality(scoreCalls)
           k == Min(n, MAX_LEADERBOARD_SCORES)
       IN  /\ leaderboard.scoreCount = k
           /\ \A v \in { c[2].score : c \in scoreCalls }
                      \cup { leaderboard.scores[x].score : x \in LiveSlots(leaderboard) } :
                Cardinality({ x \in LiveSlots(leaderboard) :
                                leaderboard.scores[x].score = v })
                  = AmongHighest(v, k)

\* more scores have been submitted than the table holds, two of them equal
\* to its minimum, and one submitted score is not on it
C20_Witness ==
    /\ \A t \in Threads : pc[t] = "idle"
    /\ Cardinality(scoreCalls) = MaxAdds
    /\ leaderboard.scoreCount = MAX_LEADERBOARD_SCORES
    /\ Submitted(MinScore(leaderboard)) >= 2
    /\ \E c \in scoreCalls :
         \A x \in LiveSlots(leaderboard) : leaderboard.scores[x].identifier # c[1]
    /\ \E t \in Threads : call[t].op = "AddScoreToLeaderboard" /\ ~local[t].ret

\* C10: every operation owns its store's mutex from before its first access
\* to the store until it returns, and a thread that has returned, by whatever
\* return statement, owns no mutex.
C10_LockScope ==
    \A t \in Threads :
        /\ pc[t] \in BodyPcs
           => IF call[t].op \in GameOps THEN gameStateMutex = t
                                        ELSE leaderboardMutex = t
        /\ pc[t] \in {"idle", "lock"}
           => (gameStateMutex # t /\ leaderboardMutex # t)

C10_Witness ==
    \E t, u \in Threads :
        /\ pc[t] = "idle"
        /\ call[t].op = "SetNetworkObject"
        /\ ~local[t].ret
        /\ currentGameState.objectCount = MAX_NETWORK_OBJECTS
        /\ pc[u] = "idle"
        /\ call[u].op = "GetNetworkObject"
        /\ ~local[u].ret
        /\ gameStateMutex = NoThread

=============================================================================
